---- MODULE Spec2Model ----
(***************************************************************************)
(* A model of the calendar application in src/src/main.rs: the state of    *)
(* CalendarApp (current_date, selected_date), its update handler, one      *)
(* action per Message variant, and the two views as operators of the       *)
(* state (calendar_view builds the grid of day buttons, detail_view shows  *)
(* the zodiac sign of the selected date).                                  *)
(*                                                                         *)
(* chrono's NaiveDate is modelled as a record [year, month, day]; its      *)
(* arithmetic (date + Duration::days(k), with_day, weekday, comparison)    *)
(* is computed through the proleptic Gregorian day count, as chrono does.  *)
(***************************************************************************)
EXTENDS Integers, Sequences, FiniteSets

VARIABLES
    current_date,   \* CalendarApp.current_date : NaiveDate
    selected_date,  \* CalendarApp.selected_date : Option<NaiveDate>
    lastMsg,        \* history: the Message the last update call handled
    prevDate        \* history: current_date as it was before that call

vars == <<current_date, selected_date, lastMsg, prevDate>>

\* Bounds of the model. Under Spec the displayed month stays within the
\* years FirstYear .. LastYear and the program is started on a day of the
\* first StartMonths months of FirstYear. Under SpecMonths the displayed
\* month ranges over CycleYears years from CycleFirstYear on (400 years are
\* one full cycle of the Gregorian calendar).
FirstYear == 2024
NumYears == 2
StartMonths == 3
CycleFirstYear == 1900
CycleYears == 400
LastYear == FirstYear + NumYears - 1
CycleLastYear == CycleFirstYear + CycleYears - 1

-----------------------------------------------------------------------------
(* Option<NaiveDate> *)

None == <<>>
Some(d) == <<d>>
Unwrap(o) == o[1]

-----------------------------------------------------------------------------
(* chrono::NaiveDate *)

Date(y, m, d) == [year |-> y, month |-> m, day |-> d]

IsLeapYear(y) == (y % 4 = 0 /\ y % 100 # 0) \/ y % 400 = 0

DaysInMonth(y, m) ==
    IF m = 2 THEN (IF IsLeapYear(y) THEN 29 ELSE 28)
    ELSE IF m \in {4, 6, 9, 11} THEN 30 ELSE 31

\* Days of the year before the first of month m (Datelike::ordinal0 of it).
DaysBeforeMonth(y, m) ==
    LET cum == <<0, 31, 59, 90, 120, 151, 181, 212, 243, 273, 304, 334>>
    IN  cum[m] + (IF m > 2 /\ IsLeapYear(y) THEN 1 ELSE 0)

\* Datelike::num_days_from_ce: January 1 of year 1 is day 1.
NumDaysFromCe(date) ==
    LET y == date.year - 1
    IN  365 * y + (y \div 4) - (y \div 100) + (y \div 400)
        + DaysBeforeMonth(date.year, date.month) + date.day

\* NaiveDate::from_num_days_from_ce: the date of a day count (the civil
\* date of a count of days since 0000-03-01, in 400-year eras).
FromNumDaysFromCe(n) ==
    LET z   == n + 305
        era == z \div 146097
        doe == z - era * 146097
        yoe == (doe - (doe \div 1460) + (doe \div 36524) - (doe \div 146096)) \div 365
        doy == doe - (365 * yoe + (yoe \div 4) - (yoe \div 100))
        mp  == (5 * doy + 2) \div 153
        d   == doy - ((153 * mp + 2) \div 5) + 1
        m   == IF mp < 10 THEN mp + 3 ELSE mp - 9
        y   == yoe + era * 400 + (IF m <= 2 THEN 1 ELSE 0)
    IN  Date(y, m, d)

\* date + chrono::Duration::days(k)  (k may be negative: date - days(k)).
AddDays(date, k) == FromNumDaysFromCe(NumDaysFromCe(date) + k)

\* date.with_day(1).unwrap(): day 1 exists in every month, so unwrap
\* never panics.
WithDay1(date) == [date EXCEPT !.day = 1]

\* date.weekday().num_days_from_sunday(): 0001-01-01 is a Monday.
NumDaysFromSunday(date) == NumDaysFromCe(date) % 7

\* NaiveDate's ordering: a <= b.
DateLE(a, b) == NumDaysFromCe(a) <= NumDaysFromCe(b)

ValidDate(date) ==
    /\ date.month \in 1..12
    /\ date.day \in 1..DaysInMonth(date.year, date.month)

\* The dates Local::now().date_naive() may return within the bounds.
Today ==
    { date \in { Date(FirstYear, m, d) : m \in 1..StartMonths, d \in 1..31 } :
        ValidDate(date) }

\* The first days of the months of the years lo .. hi.
Anchors(lo, hi) == { Date(y, m, 1) : y \in lo..hi, m \in 1..12 }

-----------------------------------------------------------------------------
(* enum Message *)

Msg(t, o) == [type |-> t, date |-> o]

-----------------------------------------------------------------------------
(* CalendarApp::update, one operator per match arm *)

\* A faulty PreviousMonth arm: steps back by 32 days, as NextMonth steps
\* forward.
PreviousMonthDate_Back32(date) == WithDay1(AddDays(WithDay1(date), -32))

\* Message::PreviousMonth: the day before the first of the month, then the
\* first of that month.
PreviousMonthDate(date) == WithDay1(AddDays(WithDay1(date), -1))

\* A faulty NextMonth arm: steps forward by 28 days only.
NextMonthDate_Forward28(date) == WithDay1(AddDays(WithDay1(date), 28))

\* Message::NextMonth: 32 days after the first of the month, then the
\* first of that month.
NextMonthDate(date) == WithDay1(AddDays(WithDay1(date), 32))

\* current_date after update(message).
UpdateCurrentDate(date, message) ==
    CASE message.type = "PreviousMonth" -> PreviousMonthDate(date)
      [] message.type = "NextMonth" -> NextMonthDate(date)
      [] OTHER -> date

\* A faulty update: the month arms also clear the selection.
UpdateSelectedDate_MonthClears(selected, message) ==
    CASE message.type = "DateSelected" -> Some(Unwrap(message.date))
      [] OTHER -> None

\* A faulty update: the BackToCalendar arm leaves the selection in place.
UpdateSelectedDate_BackKeeps(selected, message) ==
    CASE message.type = "DateSelected" -> Some(Unwrap(message.date))
      [] OTHER -> selected

\* selected_date after update(message).
UpdateSelectedDate(selected, message) ==
    CASE message.type = "DateSelected" -> Some(Unwrap(message.date))
      [] message.type = "BackToCalendar" -> None
      [] OTHER -> selected

-----------------------------------------------------------------------------
(* CalendarApp::calendar_view: the grid of day buttons *)

\* A faulty button style: compares the months with >= instead of ==.
Cell_FromMonthOn(day, date) == [date |-> day, primary |-> day.month >= date.month]

\* One button of the grid: its date (the payload of its DateSelected
\* message) and whether it is styled Primary (in the displayed month).
Cell(day, date) == [date |-> day, primary |-> day.month = date.month]

\* A faulty week row: "for _ in 0..=7", eight buttons.
Week_Inclusive(day, date) == [i \in 1..8 |-> Cell(AddDays(day, i - 1), date)]

\* The body of "for _ in 0..7": the buttons of one week row, from day on.
Week(day, date) == [i \in 1..7 |-> Cell(AddDays(day, i - 1), date)]

\* "while day <= last_day": one week row per iteration; the inner loop
\* leaves day on the day after the row's last button.
RECURSIVE GridLoop(_, _, _)
GridLoop(day, last, date) ==
    IF DateLE(day, last)
    THEN LET week == Week(day, date)
         IN  week \o GridLoop(AddDays(week[Len(week)].date, 1), last, date)
    ELSE <<>>

first_day(date) == WithDay1(date)

last_day(date) == AddDays(WithDay1(AddDays(date, 32)), -1)

\* The first button: the Sunday on or before first_day.
GridStart(date) == AddDays(first_day(date), 0 - NumDaysFromSunday(first_day(date)))

\* The buttons of the grid, row by row, for self.current_date = date.
calendar_view(date) == GridLoop(GridStart(date), last_day(date), date)

-----------------------------------------------------------------------------
(* CalendarApp::get_zodiac_sign, CalendarApp::detail_view, view *)

\* A faulty match: the Pisces arm starts at February 20, so that
\* February 19 falls through to "Unknown".
get_zodiac_sign_Feb20(date) ==
    LET month == date.month
        day == date.day
        In(m, lo, hi) == month = m /\ day \in lo..hi
    IN  CASE In(1, 1, 19) \/ In(12, 22, 31) -> "Capricorn"
          [] In(1, 20, 31) \/ In(2, 1, 18) -> "Aquarius"
          [] In(2, 20, 29) \/ In(3, 1, 20) -> "Pisces"
          [] In(3, 21, 31) \/ In(4, 1, 19) -> "Aries"
          [] In(4, 20, 30) \/ In(5, 1, 20) -> "Taurus"
          [] In(5, 21, 31) \/ In(6, 1, 20) -> "Gemini"
          [] In(6, 21, 30) \/ In(7, 1, 22) -> "Cancer"
          [] In(7, 23, 31) \/ In(8, 1, 22) -> "Leo"
          [] In(8, 23, 31) \/ In(9, 1, 22) -> "Virgo"
          [] In(9, 23, 30) \/ In(10, 1, 22) -> "Libra"
          [] In(10, 23, 31) \/ In(11, 1, 21) -> "Scorpio"
          [] In(11, 22, 30) \/ In(12, 1, 21) -> "Sagittarius"
          [] OTHER -> "Unknown"

\* The match on (month, day): the first arm whose pattern matches.
get_zodiac_sign(date) ==
    LET month == date.month
        day == date.day
        In(m, lo, hi) == month = m /\ day \in lo..hi
    IN  CASE In(1, 1, 19) \/ In(12, 22, 31) -> "Capricorn"
          [] In(1, 20, 31) \/ In(2, 1, 18) -> "Aquarius"
          [] In(2, 19, 29) \/ In(3, 1, 20) -> "Pisces"
          [] In(3, 21, 31) \/ In(4, 1, 19) -> "Aries"
          [] In(4, 20, 30) \/ In(5, 1, 20) -> "Taurus"
          [] In(5, 21, 31) \/ In(6, 1, 20) -> "Gemini"
          [] In(6, 21, 30) \/ In(7, 1, 22) -> "Cancer"
          [] In(7, 23, 31) \/ In(8, 1, 22) -> "Leo"
          [] In(8, 23, 31) \/ In(9, 1, 22) -> "Virgo"
          [] In(9, 23, 30) \/ In(10, 1, 22) -> "Libra"
          [] In(10, 23, 31) \/ In(11, 1, 21) -> "Scorpio"
          [] In(11, 22, 30) \/ In(12, 1, 21) -> "Sagittarius"
          [] OTHER -> "Unknown"

\* What detail_view shows of the selected date (its day of the year and
\* ISO week come straight from chrono and are left out).
detail_view(date) == [date |-> date, zodiac |-> get_zodiac_sign(date)]

\* CalendarApp::view: which view is shown and the date it is built from,
\* detail_view(date) when a date is selected, calendar_view() of
\* current_date otherwise.
view ==
    IF selected_date # None
    THEN [kind |-> "detail", date |-> Unwrap(selected_date)]
    ELSE [kind |-> "calendar", date |-> current_date]

\* What is on the screen.
shown_grid == calendar_view(view.date)
shown_detail == detail_view(view.date)

\* The dates of the DateSelected messages the grid's buttons send.
GridDates(date) ==
    LET grid == calendar_view(date)
    IN  { grid[i].date : i \in 1..Len(grid) }

-----------------------------------------------------------------------------
(* The application *)

\* CalendarApp::new: today's local date, no selection.
Init ==
    /\ current_date \in Today
    /\ selected_date = None
    /\ lastMsg = Msg("Init", None)
    /\ prevDate = current_date

\* update(message): the whole handler.
Update(message) ==
    /\ current_date' = UpdateCurrentDate(current_date, message)
    /\ selected_date' = UpdateSelectedDate(selected_date, message)
    /\ lastMsg' = message
    /\ prevDate' = current_date

\* One action per Message variant. update matches on the message alone, so
\* every message is handled in every state, whichever view is shown; the
\* payload of DateSelected is the date of a button of the grid built from
\* current_date. The year guards are the model's bounds, not the code's.
PreviousMonth ==
    /\ PreviousMonthDate(current_date).year >= FirstYear
    /\ Update(Msg("PreviousMonth", None))

NextMonth ==
    /\ NextMonthDate(current_date).year <= LastYear
    /\ Update(Msg("NextMonth", None))

DateSelected ==
    \E d \in GridDates(current_date) : Update(Msg("DateSelected", Some(d)))

BackToCalendar == Update(Msg("BackToCalendar", None))

Next ==
    \/ PreviousMonth
    \/ NextMonth
    \/ DateSelected
    \/ BackToCalendar

Spec == Init /\ [][Next]_vars

-----------------------------------------------------------------------------
(* The month navigation and the grid as functions of the displayed month:  *)
(* the program shows any first-of-month date of the cycle and steps from   *)
(* it with PreviousMonth and NextMonth.                                    *)

InitMonths ==
    /\ current_date \in Anchors(CycleFirstYear, CycleLastYear)
    /\ selected_date = None
    /\ lastMsg = Msg("Init", None)
    /\ prevDate = current_date

StepPreviousMonth ==
    /\ PreviousMonthDate(current_date).year >= CycleFirstYear
    /\ Update(Msg("PreviousMonth", None))

StepNextMonth ==
    /\ NextMonthDate(current_date).year <= CycleLastYear
    /\ Update(Msg("NextMonth", None))

NextMonths ==
    \/ StepPreviousMonth
    \/ StepNextMonth

SpecMonths == InitMonths /\ [][NextMonths]_vars

-----------------------------------------------------------------------------
(* Properties *)

\* The calendar's own first and last day of the month a date lies in.
MonthFirst(date) == Date(date.year, date.month, 1)
MonthLast(date) ==
    Date(date.year, date.month, DaysInMonth(date.year, date.month))

\* The month after and the month before the month of a date, by the
\* calendar: December is followed by January of the next year.
FollowingMonth(date) ==
    IF date.month = 12 THEN Date(date.year + 1, 1, 1)
    ELSE Date(date.year, date.month + 1, 1)
PrecedingMonth(date) ==
    IF date.month = 1 THEN Date(date.year - 1, 12, 1)
    ELSE Date(date.year, date.month - 1, 1)

\* C1: in every reachable state the current month date has day-of-month 1.
C1_CurrentDateIsFirstOfMonth == current_date.day = 1

\* C2: from any reachable state, NextMonth followed by PreviousMonth leaves
\* the current month date equal to its value before the two events
\* (prevDate holds that value while the second event is handled).
C2_NextThenPreviousRestores ==
    [][(lastMsg.type = "NextMonth" /\ lastMsg'.type = "PreviousMonth")
        => current_date' = prevDate]_vars

\* C3: in every reachable state with no selection (the grid is shown for
\* the current month date) the grid starts at the Sunday on or before the
\* first day of the current month, lists consecutive days, and ends at the
\* Saturday on or after the last day of that same month.
C3_GridSpansTheMonthsWeeks ==
    view.kind = "calendar" =>
        LET grid == shown_grid
            n == Len(grid)
            start == NumDaysFromCe(MonthFirst(current_date))
            end == NumDaysFromCe(MonthLast(current_date))
        IN  /\ n > 0
            /\ NumDaysFromSunday(grid[1].date) = 0
            /\ start - NumDaysFromCe(grid[1].date) \in 0..6
            /\ \A i \in 1..(n - 1) :
                   NumDaysFromCe(grid[i + 1].date) = NumDaysFromCe(grid[i].date) + 1
            /\ NumDaysFromSunday(grid[n].date) = 6
            /\ NumDaysFromCe(grid[n].date) - end \in 0..6

\* C4: for every date a with day-of-month 1, NextMonth changes the current
\* month date to day 1 of the month following a's (December to January of
\* the next year) and PreviousMonth to day 1 of the month preceding a's
\* (January to December of the year before).
C4_MonthStepsReachAdjacentMonth ==
    /\ (lastMsg.type = "NextMonth" /\ prevDate.day = 1)
           => current_date = FollowingMonth(prevDate)
    /\ (lastMsg.type = "PreviousMonth" /\ prevDate.day = 1)
           => current_date = PrecedingMonth(prevDate)

\* NextMonth has been handled on December 1, 1999, the last month of a
\* year.
C4_Witness ==
    /\ lastMsg.type = "NextMonth"
    /\ prevDate = Date(1999, 12, 1)
    /\ current_date = Date(2000, 1, 1)

\* C5: for every date a with day-of-month 1, PreviousMonth applied after
\* NextMonth yields a, and NextMonth applied after PreviousMonth yields a.
C5_MonthStepsAreInverses ==
    [][/\ (lastMsg.type = "NextMonth" /\ prevDate.day = 1
              /\ lastMsg'.type = "PreviousMonth") => current_date' = prevDate
       /\ (lastMsg.type = "PreviousMonth" /\ prevDate.day = 1
              /\ lastMsg'.type = "NextMonth") => current_date' = prevDate]_vars

\* PreviousMonth has been handled on March 1 of a leap year, and NextMonth
\* would lead back to it.
C5_Witness ==
    /\ lastMsg.type = "PreviousMonth"
    /\ prevDate = Date(2024, 3, 1)
    /\ current_date = Date(2024, 2, 1)
    /\ NextMonthDate(current_date).year <= CycleLastYear

\* C6: the buttons of the grid that are marked as in the current month are
\* exactly the dates from the first to the last day of the displayed month,
\* each once; every other button is not marked.
C6_MarkedCellsAreTheMonth ==
    view.kind = "calendar" =>
        LET grid == shown_grid
            InMonth(d) == d.year = current_date.year /\ d.month = current_date.month
        IN  /\ \A k \in 1..DaysInMonth(current_date.year, current_date.month) :
                   Cardinality({ i \in 1..Len(grid) :
                       grid[i].date = Date(current_date.year, current_date.month, k) }) = 1
            /\ \A i \in 1..Len(grid) : grid[i].primary <=> InMonth(grid[i].date)

\* After PreviousMonth the grid of a December is shown: its trailing buttons are days of
\* January, none marked.
C6_Witness ==
    /\ lastMsg.type = "PreviousMonth"
    /\ view.kind = "calendar"
    /\ current_date = Date(2023, 12, 1)
    /\ \E i \in 1..Len(shown_grid) :
           shown_grid[i].date = Date(2024, 1, 6) /\ ~shown_grid[i].primary
    /\ \E i \in 1..Len(shown_grid) :
           shown_grid[i].date = Date(2023, 12, 31) /\ shown_grid[i].primary

\* C7: for every month the grid loop ends with a number of buttons that is
\* a multiple of 7 and at least 28.
C7_GridIsWholeWeeks ==
    view.kind = "calendar" =>
        /\ Len(shown_grid) % 7 = 0
        /\ Len(shown_grid) >= 28

\* The grid of February 2026, which starts on a Sunday and has 28 days, is
\* shown: exactly four weeks.
C7_Witness ==
    /\ view.kind = "calendar"
    /\ current_date = Date(2026, 2, 1)
    /\ Len(shown_grid) = 28

\* C8: PreviousMonth and NextMonth leave the selected date as it was,
\* present or absent, in whatever state they are handled.
C8_MonthStepsKeepSelection ==
    [][lastMsg'.type \in {"PreviousMonth", "NextMonth"}
        => selected_date' = selected_date]_vars

\* NextMonth has been handled while a date was selected: the month has
\* changed and the date is still selected.
C8_Witness ==
    /\ lastMsg.type = "NextMonth"
    /\ current_date # prevDate
    /\ selected_date # None

\* C9: DateSelected(d) sets the selected date to d, for any d, and shows the
\* detail view; a following BackToCalendar shows the grid again with no
\* selected date and the current month date as it was before
\* DateSelected(d); the detail view is shown exactly when a date is
\* selected.
C9_SelectThenBack ==
    [][/\ lastMsg'.type = "DateSelected"
              => /\ selected_date' = lastMsg'.date
                 /\ view' = [kind |-> "detail", date |-> Unwrap(lastMsg'.date)]
                 /\ current_date' = current_date
       /\ (lastMsg.type = "DateSelected" /\ lastMsg'.type = "BackToCalendar")
              => /\ selected_date' = None
                 /\ view'.kind = "calendar"
                 /\ current_date' = prevDate
       /\ (view.kind = "detail" <=> selected_date # None)
       /\ (view'.kind = "detail" <=> selected_date' # None)]_vars

\* A padding button, a day of the month after the displayed one, has been
\* pressed: its date is selected and the detail view is shown.
C9_Witness ==
    /\ lastMsg.type = "DateSelected"
    /\ current_date = Date(2024, 2, 1)
    /\ selected_date = Some(Date(2024, 3, 2))
    /\ view.kind = "detail"

\* The boundary table: each sign with the first and the last (month, day)
\* of its range.
ZodiacTable ==
    { <<"Capricorn", 12, 22, 1, 19>>, <<"Aquarius", 1, 20, 2, 18>>,
      <<"Pisces", 2, 19, 3, 20>>, <<"Aries", 3, 21, 4, 19>>,
      <<"Taurus", 4, 20, 5, 20>>, <<"Gemini", 5, 21, 6, 20>>,
      <<"Cancer", 6, 21, 7, 22>>, <<"Leo", 7, 23, 8, 22>>,
      <<"Virgo", 8, 23, 9, 22>>, <<"Libra", 9, 23, 10, 22>>,
      <<"Scorpio", 10, 23, 11, 21>>, <<"Sagittarius", 11, 22, 12, 21>> }

\* (m1, d1) is on or before (m2, d2) within a year.
OnOrBefore(m1, d1, m2, d2) == m1 < m2 \/ (m1 = m2 /\ d1 <= d2)

\* The signs whose inclusive range contains the date; a range whose end is
\* before its start runs over the turn of the year.
SignsOf(date) ==
    { r[1] : r \in { r \in ZodiacTable :
        LET from == OnOrBefore(r[2], r[3], date.month, date.day)
            to == OnOrBefore(date.month, date.day, r[4], r[5])
        IN  IF OnOrBefore(r[2], r[3], r[4], r[5]) THEN from /\ to ELSE from \/ to } }

\* C10: for every valid date the zodiac lookup returns the one sign of the
\* boundary table whose inclusive range contains the date, never "Unknown".
C10_ZodiacFollowsTable ==
    view.kind = "detail" =>
        /\ ValidDate(shown_detail.date)
        /\ SignsOf(shown_detail.date) = {shown_detail.zodiac}
        /\ shown_detail.zodiac # "Unknown"

\* February 29 has been selected and the detail view shows Pisces.
C10_Witness ==
    /\ selected_date = Some(Date(2024, 2, 29))
    /\ view.kind = "detail"
    /\ shown_detail.zodiac = "Pisces"

====
